---- MODULE Spec2Model ----
(***************************************************************************)
(* Model of download.py: the paginated listing of signature requests       *)
(* (list_all_signature_requests), the bulk download of their documents     *)
(* (download_signature_requests) and the file-name sanitization the        *)
(* download applies (re.sub("[^0-9a-zA-Z\.]+", "_", file_name)).           *)
(*                                                                         *)
(* Three specifications share the variables:                               *)
(*   ListSpec      the listing loop against a provider with a fixed        *)
(*                 record set;                                             *)
(*   DownloadSpec  the download loop over a batch of summaries;            *)
(*   SanitizeSpec  the sanitization applied to bounded strings.            *)
(***************************************************************************)
EXTENDS Integers, Sequences, FiniteSets, TLC

\* Python's None, as a string among strings and as a number among numbers
\* (max_pages: Optional[int] = None).
None == "None"
NoPages == -1

Min(a, b) == IF a <= b THEN a ELSE b
Max(a, b) == IF a >= b THEN a ELSE b

(***************************************************************************)
(* Bounds of the model.                                                    *)
(***************************************************************************)
\* Records the provider holds.
MaxRecords == 2
\* Largest page_size argument tried (the code's default is 100).
MaxPageSize == 2
\* Largest max_pages argument tried.
MaxCap == 3
\* ApiExceptions the provider raises during one listing.
MaxErrors == 1
\* Length of the strings the sanitization is applied to.
MaxLen == 3
\* Summaries handed to one download.
MaxBatch == 2
\* Bytes of one document (one "byte" stands for a block of the body).
DocLen == 2

VARIABLES
    \* ---- list_all_signature_requests ----
    records,             \* the provider's record set, in listing order
    page_size,           \* argument
    max_pages,           \* argument (None or a number)
    include_incomplete,  \* argument
    page,                \* the 1-based page cursor
    num_pages,           \* the iteration bound (None until known)
    signature_requests,  \* the accumulated summaries
    lpc,                 \* "loop" | "returned"
    fetched,             \* history: pages whose request succeeded, in order
    requested,           \* history: highest page number ever requested
    errors,              \* history: ApiExceptions caught so far
    outage,              \* the provider fails every request from now on
    \* ---- download_signature_requests ----
    batch,               \* argument signature_requests: the summaries
    overwrite_existing,  \* argument
    files,               \* the download folder: file name -> content
    idx,                 \* position of the for loop in batch (1-based)
    dpc,                 \* "next" | "get" | "write" | "done" | "raised"
    attempts,            \* retries the adapter has used inside the running s.get
    retried,             \* the current s.get met a status of the forcelist
    status,              \* r.status_code of the current response (0: none)
    body,                \* the chunks r.iter_content yields
    pos,                 \* chunks consumed so far
    outcome,             \* history: how each record ended
    api_calls,           \* history: records whose file URL was asked for
    http_calls,          \* history: records for which s.get was called
    log,                 \* the lines logged: <<level, record>>
    raised,              \* the exception that left the function, or None
    \* ---- the sanitization alone ----
    file_name,           \* a string, as a sequence of characters
    once,                \* re.sub applied to file_name
    twice,               \* re.sub applied to once
    spc                  \* "input" | "once" | "twice"

listVars == <<records, page_size, max_pages, include_incomplete, page,
              num_pages, signature_requests, lpc, fetched, requested,
              errors, outage>>

downVars == <<batch, overwrite_existing, files, idx, dpc, attempts, retried,
              status, body, pos, outcome, api_calls, http_calls, log, raised>>

sanVars == <<file_name, once, twice, spc>>

vars == <<listVars, downVars, sanVars>>

\* The parts a specification does not exercise stay as they are here.
ListIdle ==
    /\ records = <<>> /\ page_size = 1 /\ max_pages = NoPages
    /\ include_incomplete = TRUE /\ page = 1 /\ num_pages = NoPages
    /\ signature_requests = <<>> /\ lpc = "idle" /\ fetched = <<>>
    /\ requested = 0 /\ errors = 0 /\ outage = FALSE

DownIdle ==
    /\ batch = <<>> /\ overwrite_existing = TRUE /\ files = <<>>
    /\ idx = 1 /\ dpc = "idle" /\ attempts = 0 /\ retried = FALSE
    /\ status = 0 /\ body = <<>> /\ pos = 0 /\ outcome = <<>>
    /\ api_calls = {} /\ http_calls = {} /\ log = <<>> /\ raised = None

SanIdle ==
    /\ file_name = <<>> /\ once = <<>> /\ twice = <<>> /\ spc = "idle"

(***************************************************************************)
(* The provider (Dropbox Sign API), as the listing sees it.                *)
(***************************************************************************)
\* One raw record at listing position i: either identifier may be None.
RawRecords(i) ==
    [signature_request_id : {None, "sig" \o ToString(i)},
     transmission_id      : {None, "tx" \o ToString(i)},
     is_complete          : BOOLEAN,
     title                : {"title" \o ToString(i)}]

RecordSets ==
    UNION {{r \in [1..n -> UNION {RawRecords(i) : i \in 1..n}] :
              \A i \in 1..n : r[i] \in RawRecords(i)} : n \in 0..MaxRecords}

\* list_info.num_pages of a response: the record set split into pages of
\* page_size records (page 1 always exists).
ProviderNumPages(recs, size) == Max(1, (Len(recs) + size - 1) \div size)

\* response["signature_requests"] for page p: empty beyond the last page.
ProviderPage(recs, p, size) ==
    SubSeq(recs, (p - 1) * size + 1, Min(p * size, Len(recs)))

(***************************************************************************)
(* list_all_signature_requests                                             *)
(*                                                                         *)
(* The tqdm progress bar (pbar.update, pbar.total) only displays the       *)
(* count of requests; it decides nothing and is left out of the state.     *)
(***************************************************************************)
\* Mutant of Keep: the transmission_id alternative is forgotten.
KeepPrimaryOnly(request, incl) ==
    /\ request.signature_request_id # None
    /\ (incl \/ request.is_complete)

\* The list comprehension's condition.
Keep(request, incl) ==
    /\ (request.signature_request_id # None \/ request.transmission_id # None)
    /\ (incl \/ request.is_complete)

\* SignatureRequest(id=..., title=...)
SignatureRequest(request) ==
    [id    |-> IF request.signature_request_id # None
               THEN request.signature_request_id
               ELSE request.transmission_id,
     title |-> request.title]

RECURSIVE Summaries(_, _)
Summaries(reqs, incl) ==
    IF reqs = <<>> THEN <<>>
    ELSE (IF Keep(Head(reqs), incl) THEN <<SignatureRequest(Head(reqs))>> ELSE <<>>)
         \o Summaries(Tail(reqs), incl)

\* Mutant of LoopCond: the last page is left out.
LoopCondStrict(np, p) == np = NoPages \/ p < np

\* while num_pages is None or page <= num_pages
LoopCond(np, p) == np = NoPages \/ p <= np

\* Mutant of PageAfterError: the cursor is advanced before the call.
PageAfterErrorAdvanced(p) == p + 1

\* The cursor after a request that raised ApiException: page += 1 is not reached.
PageAfterError(p) == p

\* if num_pages is None: num_pages = response["list_info"]["num_pages"]
ResolveNumPages(np, reported) == IF np = NoPages THEN reported ELSE np

ListInit ==
    /\ records \in RecordSets
    /\ page_size \in 1..MaxPageSize
    /\ max_pages \in {NoPages} \cup (0..MaxCap)
    /\ include_incomplete \in BOOLEAN
    /\ page = 1
    /\ num_pages = max_pages
    /\ signature_requests = <<>>
    /\ lpc = "loop"
    /\ fetched = <<>>
    /\ requested = 0
    /\ errors = 0
    /\ outage = FALSE
    /\ DownIdle
    /\ SanIdle

\* One iteration whose signature_request_list call returns.
ListPageOk ==
    /\ lpc = "loop"
    /\ LoopCond(num_pages, page)
    /\ ~outage
    /\ page' = page + 1
    /\ num_pages' = ResolveNumPages(num_pages, ProviderNumPages(records, page_size))
    /\ signature_requests' =
          signature_requests
          \o Summaries(ProviderPage(records, page, page_size), include_incomplete)
    /\ fetched' = Append(fetched, page)
    /\ requested' = Max(requested, page)
    /\ UNCHANGED <<records, page_size, max_pages, include_incomplete, lpc,
                   errors, outage, downVars, sanVars>>

\* One iteration whose signature_request_list call raises ApiException.
ListPageError ==
    /\ lpc = "loop"
    /\ LoopCond(num_pages, page)
    /\ errors < MaxErrors
    /\ page' = PageAfterError(page)
    /\ errors' = errors + 1
    /\ requested' = Max(requested, page)
    /\ UNCHANGED <<records, page_size, max_pages, include_incomplete,
                   num_pages, signature_requests, lpc, fetched, outage,
                   downVars, sanVars>>

\* The loop condition fails: pbar.close(); return signature_requests.
ListReturn ==
    /\ lpc = "loop"
    /\ ~LoopCond(num_pages, page)
    /\ lpc' = "returned"
    /\ UNCHANGED <<records, page_size, max_pages, include_incomplete, page,
                   num_pages, signature_requests, fetched, requested, errors,
                   outage, downVars, sanVars>>

\* The environment: the provider's error becomes persistent.
ProviderOutage ==
    /\ lpc = "loop"
    /\ ~outage
    /\ outage' = TRUE
    /\ UNCHANGED <<records, page_size, max_pages, include_incomplete, page,
                   num_pages, signature_requests, lpc, fetched, requested,
                   errors, downVars, sanVars>>

ListNext == ListPageOk \/ ListPageError \/ ListReturn \/ ProviderOutage

\* Every request that can succeed eventually does; the loop itself runs on.
ListSpec ==
    ListInit /\ [][ListNext]_vars /\ WF_vars(ListPageOk) /\ WF_vars(ListReturn)

(***************************************************************************)
(* The sanitization of a file name:                                        *)
(*     re.sub("[^0-9a-zA-Z\.]+", "_", file_name)                           *)
(* Strings are sequences of one-character strings.                         *)
(***************************************************************************)
Digits == {"0", "1", "2", "3", "4", "5", "6", "7", "8", "9"}
Lower == {"a", "b", "c", "d", "e", "f", "g", "h", "i", "j", "k", "l", "m",
          "n", "o", "p", "q", "r", "s", "t", "u", "v", "w", "x", "y", "z"}
Upper == {"A", "B", "C", "D", "E", "F", "G", "H", "I", "J", "K", "L", "M",
          "N", "O", "P", "Q", "R", "S", "T", "U", "V", "W", "X", "Y", "Z"}

\* The characters the negated class [^0-9a-zA-Z\.] does not match.
Class == Digits \cup Lower \cup Upper \cup {"."}
Allowed(c) == c \in Class

\* What is left of s after the run of matching characters at its front.
RECURSIVE SkipRun(_)
SkipRun(s) ==
    IF s = <<>> \/ Allowed(Head(s)) THEN s ELSE SkipRun(Tail(s))

\* Mutant of Sanitize: the pattern without its "+", one "_" per character.
RECURSIVE SanitizePerChar(_)
SanitizePerChar(s) ==
    IF s = <<>> THEN <<>>
    ELSE <<IF Allowed(Head(s)) THEN Head(s) ELSE "_">> \o SanitizePerChar(Tail(s))

\* re.sub scans left to right; each maximal run of matching characters is one
\* match of the pattern and becomes one "_".
RECURSIVE Sanitize(_)
Sanitize(s) ==
    IF s = <<>> THEN <<>>
    ELSE IF Allowed(Head(s)) THEN <<Head(s)>> \o Sanitize(Tail(s))
    ELSE <<"_">> \o Sanitize(SkipRun(Tail(s)))

\* The characters the strings of SanitizeSpec are made of: of the class, and
\* outside it (the underscore itself is outside the class).
SanChars == {"a", "Z", "7", ".", "_", "/", " "}

Strings(n) == UNION {[1..k -> SanChars] : k \in 0..n}

SanitizeInit ==
    /\ file_name \in Strings(MaxLen)
    /\ once = <<>>
    /\ twice = <<>>
    /\ spc = "input"
    /\ ListIdle
    /\ DownIdle

\* file_name = re.sub(..., file_name)
SanitizeOnce ==
    /\ spc = "input"
    /\ once' = Sanitize(file_name)
    /\ spc' = "once"
    /\ UNCHANGED <<file_name, twice, listVars, downVars>>

\* The same substitution applied to its own result.
SanitizeAgain ==
    /\ spc = "once"
    /\ twice' = Sanitize(once)
    /\ spc' = "twice"
    /\ UNCHANGED <<file_name, once, listVars, downVars>>

SanitizeNext == SanitizeOnce \/ SanitizeAgain

SanitizeSpec == SanitizeInit /\ [][SanitizeNext]_vars

(***************************************************************************)
(* download_signature_requests                                             *)
(*                                                                         *)
(* The download folder exists once mkdir(parents=True, exist_ok=True) has  *)
(* run; `files` is its content.  The provider issues https URLs, so every  *)
(* s.get goes through the adapter mounted on "https://" with               *)
(* Retry(total=10, status_forcelist=[429, 500, 502, 503, 504]); Retry's    *)
(* raise_on_status is left at its default (True), so a forcelist status    *)
(* that outlasts the retries leaves s.get as requests' RetryError, not as  *)
(* a response.                                                             *)
(***************************************************************************)
\* Retry(total=10, ...)
RetryTotal == 10

\* status_forcelist
status_forcelist == {429, 500, 502, 503, 504}

\* The status codes the file server answers with.
Statuses == {200, 404, 503}

\* r.ok
Ok(code) == code < 400

\* The summaries a batch is drawn from: the first two differ in title and
\* share the sanitized name a_1.pdf.
Catalogue ==
    {[id |-> <<"1">>, title |-> <<"a">>],
     [id |-> <<"1">>, title |-> <<"a", "/">>],
     [id |-> <<"2">>, title |-> <<"b", " ", "/", "c">>]}

Batches == UNION {[1..n -> Catalogue] : n \in 0..MaxBatch}

\* file_name = f"{title}_{id}.pdf", then the substitution.
FileName(sr) == Sanitize(sr.title \o <<"_">> \o sr.id \o <<".", "p", "d", "f">>)

\* The document behind the file URL of the record at position i.
Doc(i) == [k \in 1..DocLen |-> 10 * i + k]

\* What a file left by an earlier run holds.
OldContent == <<0>>

\* The ways iter_content may cut a document into exactly n chunks (a chunk
\* may be empty).
RECURSIVE Cut(_, _)
Cut(doc, n) ==
    IF n = 1 THEN {<<doc>>}
    ELSE UNION {{<<SubSeq(doc, 1, k)>> \o rest :
                   rest \in Cut(SubSeq(doc, k + 1, Len(doc)), n - 1)}
                : k \in 0..Len(doc)}

\* Up to one chunk more than the document has bytes.
Chunkings(doc) == UNION {Cut(doc, n) : n \in 1..(Len(doc) + 1)}

RECURSIVE Flatten(_)
Flatten(chunks) ==
    IF chunks = <<>> THEN <<>> ELSE Head(chunks) \o Flatten(Tail(chunks))

\* Mutant of ShouldSkip: the existence test comes without the flag.
ShouldSkipAlways(exists, overwrite) == exists /\ overwrite

\* if Path.exists(file_path) and not overwrite_existing: continue
ShouldSkip(exists, overwrite) == exists /\ ~overwrite

\* Mutant of Opened: the file is opened for appending ("ab").
OpenedForAppend(fs, name) ==
    [n \in DOMAIN fs \cup {name} |-> IF n \in DOMAIN fs THEN fs[n] ELSE <<>>]

\* open(file_path, "wb"): the file exists and is empty.
Opened(fs, name) ==
    [n \in DOMAIN fs \cup {name} |-> IF n = name THEN <<>> ELSE fs[n]]

\* Mutant of Written: each chunk replaces what was written before it.
WrittenLastOnly(content, chunk) == IF chunk # <<>> THEN chunk ELSE content

\* if chunk: f.write(chunk)
Written(content, chunk) == IF chunk # <<>> THEN content \o chunk ELSE content

\* Mutant of AfterHttpError: the file is opened before the status is looked at.
AfterHttpErrorOpened(fs, name) == Opened(fs, name)

\* The folder after the else branch of `if r.ok`: only a line is logged.
AfterHttpError(fs, name) == fs

InBatch == dpc = "next" /\ idx <= Len(batch)
CurName == FileName(batch[idx])

DownloadInit ==
    /\ batch \in Batches
    /\ overwrite_existing \in BOOLEAN
    /\ files \in UNION {[S -> {OldContent}] :
                          S \in SUBSET {FileName(batch[i]) : i \in 1..Len(batch)}}
    /\ idx = 1
    /\ dpc = "next"
    /\ attempts = 0
    /\ retried = FALSE
    /\ status = 0
    /\ body = <<>>
    /\ pos = 0
    /\ outcome = [i \in 1..Len(batch) |-> "pending"]
    /\ api_calls = {}
    /\ http_calls = {}
    /\ log = <<>>
    /\ raised = None
    /\ ListIdle
    /\ SanIdle

\* The record ends; the loop moves to the next one.
EndRecord(how) ==
    /\ outcome' = [outcome EXCEPT ![idx] = how]
    /\ idx' = idx + 1
    /\ dpc' = "next"
    /\ attempts' = 0
    /\ retried' = FALSE
    /\ status' = 0
    /\ body' = <<>>
    /\ pos' = 0

\* The destination exists and overwrite_existing is off: continue.
SkipExisting ==
    /\ InBatch
    /\ ShouldSkip(CurName \in DOMAIN files, overwrite_existing)
    /\ EndRecord("skipped")
    /\ UNCHANGED <<batch, overwrite_existing, files, api_calls, http_calls,
                   log, raised, listVars, sanVars>>

\* signature_request_files_as_file_url raises ApiException (caught, logged).
ResolveRaises ==
    /\ InBatch
    /\ ~ShouldSkip(CurName \in DOMAIN files, overwrite_existing)
    /\ api_calls' = api_calls \cup {idx}
    /\ log' = Append(log, <<"error", idx>>)
    /\ EndRecord("api_error")
    /\ UNCHANGED <<batch, overwrite_existing, files, http_calls, raised,
                   listVars, sanVars>>

\* The response holds no "file_url": warning, continue.
ResolveNoFile ==
    /\ InBatch
    /\ ~ShouldSkip(CurName \in DOMAIN files, overwrite_existing)
    /\ api_calls' = api_calls \cup {idx}
    /\ log' = Append(log, <<"warning", idx>>)
    /\ EndRecord("no_file")
    /\ UNCHANGED <<batch, overwrite_existing, files, http_calls, raised,
                   listVars, sanVars>>

\* validators.url(file_url) fails: error, continue.
ResolveInvalidUrl ==
    /\ InBatch
    /\ ~ShouldSkip(CurName \in DOMAIN files, overwrite_existing)
    /\ api_calls' = api_calls \cup {idx}
    /\ log' = Append(log, <<"error", idx>>)
    /\ EndRecord("bad_url")
    /\ UNCHANGED <<batch, overwrite_existing, files, http_calls, raised,
                   listVars, sanVars>>

\* A valid file URL: s.get(file_url, stream=True, timeout=30) is called.
ResolveOk ==
    /\ InBatch
    /\ ~ShouldSkip(CurName \in DOMAIN files, overwrite_existing)
    /\ api_calls' = api_calls \cup {idx}
    /\ http_calls' = http_calls \cup {idx}
    /\ dpc' = "get"
    /\ attempts' = 0
    /\ UNCHANGED <<batch, overwrite_existing, files, idx, retried, status,
                   body, pos, outcome, log, raised, listVars, sanVars>>

\* Inside s.get: a status of the forcelist, and retries are left.
HttpRetry ==
    /\ dpc = "get"
    /\ \E code \in Statuses \cap status_forcelist : attempts < RetryTotal
    /\ attempts' = attempts + 1
    /\ retried' = TRUE
    /\ UNCHANGED <<batch, overwrite_existing, files, idx, dpc, status, body,
                   pos, outcome, api_calls, http_calls, log, raised,
                   listVars, sanVars>>

\* Inside s.get: a status of the forcelist with no retry left: RetryError,
\* which `except ApiException` does not catch.
HttpExhausted ==
    /\ dpc = "get"
    /\ \E code \in Statuses \cap status_forcelist : attempts = RetryTotal
    /\ dpc' = "raised"
    /\ raised' = "RetryError"
    /\ UNCHANGED <<batch, overwrite_existing, files, idx, attempts, retried,
                   status, body, pos, outcome, api_calls, http_calls, log,
                   listVars, sanVars>>

\* s.get returns a response with r.ok: the file is opened for writing.
HttpResponseOk ==
    /\ dpc = "get"
    /\ \E code \in {c \in Statuses \ status_forcelist : Ok(c)} :
          status' = code
    /\ body' \in Chunkings(Doc(idx))
    /\ pos' = 0
    /\ files' = Opened(files, CurName)
    /\ dpc' = "write"
    /\ attempts' = 0
    /\ UNCHANGED <<batch, overwrite_existing, idx, retried, outcome,
                   api_calls, http_calls, log, raised, listVars, sanVars>>

\* s.get returns a response without r.ok: the status is logged.
HttpResponseError ==
    /\ dpc = "get"
    /\ \E code \in {c \in Statuses \ status_forcelist : ~Ok(c)} : TRUE
    /\ files' = AfterHttpError(files, CurName)
    /\ log' = Append(log, <<"error", idx>>)
    /\ EndRecord("http_error")
    /\ UNCHANGED <<batch, overwrite_existing, api_calls, http_calls, raised,
                   listVars, sanVars>>

\* One turn of `for chunk in r.iter_content(...)`.
WriteChunk ==
    /\ dpc = "write"
    /\ pos < Len(body)
    /\ files' = [files EXCEPT ![CurName] = Written(@, body[pos + 1])]
    /\ pos' = pos + 1
    /\ UNCHANGED <<batch, overwrite_existing, idx, dpc, attempts, retried,
                   status, body, outcome, api_calls, http_calls, log, raised,
                   listVars, sanVars>>

\* The connection breaks while the body is read: iter_content raises, and the
\* exception leaves the function with the file as far as it was written.
StreamBreaks ==
    /\ dpc = "write"
    /\ pos < Len(body)
    /\ dpc' = "raised"
    /\ raised' = "ChunkedEncodingError"
    /\ UNCHANGED <<batch, overwrite_existing, files, idx, attempts, retried,
                   status, body, pos, outcome, api_calls, http_calls, log,
                   listVars, sanVars>>

\* The body is exhausted: the with block closes the file.
CloseFile ==
    /\ dpc = "write"
    /\ pos = Len(body)
    /\ EndRecord("downloaded")
    /\ UNCHANGED <<batch, overwrite_existing, files, api_calls, http_calls,
                   log, raised, listVars, sanVars>>

\* The for loop is exhausted: the function returns.
DownloadReturn ==
    /\ dpc = "next"
    /\ idx > Len(batch)
    /\ dpc' = "done"
    /\ UNCHANGED <<batch, overwrite_existing, files, idx, attempts, retried,
                   status, body, pos, outcome, api_calls, http_calls, log,
                   raised, listVars, sanVars>>

DownloadNext ==
    \/ SkipExisting \/ ResolveRaises \/ ResolveNoFile \/ ResolveInvalidUrl
    \/ ResolveOk \/ HttpRetry \/ HttpExhausted \/ HttpResponseOk
    \/ HttpResponseError \/ WriteChunk \/ StreamBreaks \/ CloseFile
    \/ DownloadReturn

DownloadSpec == DownloadInit /\ [][DownloadNext]_vars

(***************************************************************************)
(* Claims about list_all_signature_requests (under ListSpec).              *)
(***************************************************************************)
\* The provider's total page count for this listing.
TotalPages == ProviderNumPages(records, page_size)

\* The claimed result, written from the record set alone (no pages).
Qualifies(r) ==
    /\ (r.signature_request_id # None \/ r.transmission_id # None)
    /\ (r.is_complete \/ include_incomplete)

ExpectedSummaries ==
    LET q == SelectSeq(records, Qualifies)
    IN  [i \in 1..Len(q) |->
            [id    |-> IF q[i].signature_request_id # None
                       THEN q[i].signature_request_id
                       ELSE q[i].transmission_id,
             title |-> q[i].title]]

\* C1: with no page cap, the listing returns exactly the qualifying records
\* of the provider's set, in listing order, mapped to (id, title), whatever
\* the page size.
C1_ListingComplete ==
    (lpc = "returned" /\ max_pages = NoPages)
        => signature_requests = ExpectedSummaries

C1_Witness ==
    /\ lpc = "returned"
    /\ max_pages = NoPages
    /\ Len(records) = 2
    /\ page_size = 1
    /\ fetched = <<1, 2>>
    /\ Len(signature_requests) = 2
    /\ records[1].signature_request_id = None
    /\ records[1].transmission_id # None
    /\ signature_requests[1].id = records[1].transmission_id

\* C2 (as claimed): the highest page ever requested is min(T, C), T without
\* a cap, so no page beyond the provider's total is requested.
C2_BoundIsMin ==
    LET bound == IF max_pages = NoPages THEN TotalPages
                 ELSE Min(TotalPages, max_pages)
    IN  /\ requested <= bound
        /\ lpc = "returned" => requested = bound

\* C3: a failed page request leaves the cursor and the accumulator as they
\* were (so the next request is for the same page); the successful requests
\* are for pages 1, 2, 3, ... in order, once each, and the accumulator holds
\* exactly the summaries of those pages.
C3_RetrySamePage ==
    /\ [](/\ fetched = [i \in 1..(page - 1) |-> i]
          /\ signature_requests =
                Summaries(SubSeq(records, 1,
                                 Min((page - 1) * page_size, Len(records))),
                          include_incomplete))
    /\ [][ListPageError =>
            /\ page' = page
            /\ signature_requests' = signature_requests
            /\ fetched' = fetched]_vars

C3_Witness ==
    /\ lpc = "returned"
    /\ errors = 1
    /\ fetched = <<1, 2>>
    /\ page_size = 1
    /\ Len(signature_requests) = 2

\* C9: the listing returns only with the cursor past the resolved bound,
\* every page 1..bound fetched; it returns eventually when requests
\* eventually succeed; while the provider's error persists on a page still
\* to fetch, the cursor stays and the listing does not return.
C9_NoPartialReturn ==
    /\ [](lpc = "returned" =>
            /\ num_pages # NoPages
            /\ page > num_pages
            /\ fetched = [i \in 1..num_pages |-> i])
    /\ [][(outage /\ LoopCond(num_pages, page)) =>
            (lpc' = "loop" /\ page' = page)]_vars
    /\ <>(lpc = "returned" \/ outage)

C9_Witness ==
    /\ lpc = "returned"
    /\ errors > 0
    /\ num_pages = 2
    /\ fetched = <<1, 2>>
    /\ ~outage

(***************************************************************************)
(* Claims about download_signature_requests (under DownloadSpec).          *)
(***************************************************************************)
NameOf(i) == FileName(batch[i])

\* The record at position i has opened its destination for writing.
HasOpened(i) ==
    \/ outcome[i] = "downloaded"
    \/ i = idx /\ dpc = "write"
    \/ i = idx /\ dpc = "raised" /\ raised = "ChunkedEncodingError"

\* No record after i has opened the destination of i.
LastWriter(i) ==
    \A j \in (i + 1)..Len(batch) : ~(NameOf(j) = NameOf(i) /\ HasOpened(j))

\* C4: a record whose destination exists while overwrite_existing is False
\* is skipped in one step that makes no provider call and no HTTP call and
\* leaves the folder as it was.
C4_SkipNoNetwork ==
    /\ [](\A i \in 1..Len(batch) :
            outcome[i] = "skipped" => i \notin api_calls \cup http_calls)
    /\ [][(InBatch /\ CurName \in DOMAIN files /\ ~overwrite_existing) =>
            /\ outcome'[idx] = "skipped"
            /\ idx' = idx + 1
            /\ files' = files
            /\ api_calls' = api_calls
            /\ http_calls' = http_calls]_vars

C4_Witness ==
    /\ dpc = "done"
    /\ ~overwrite_existing
    /\ Len(batch) = 2
    /\ outcome = <<"skipped", "downloaded">>
    /\ files[NameOf(1)] = OldContent
    /\ api_calls = {2}
    /\ http_calls = {2}

\* C5 (as claimed): no outcome of a single record ends the batch; in
\* particular a status of the forcelist that outlasts the retries is logged
\* and the later records are processed.
C5_FailureNeverAborts ==
    ~(dpc = "raised" /\ raised = "RetryError")

\* C7: fewer transient failures than the retry ceiling never fail the
\* download; the chunks of the response are written once each, in order, so
\* that the file holds the whole body when the body is exhausted, and holds
\* it still after the record is done.
C7_DownloadExact ==
    /\ (dpc = "raised" /\ raised = "RetryError") => attempts = RetryTotal
    /\ dpc = "write" => files[CurName] = Flatten(SubSeq(body, 1, pos))
    /\ (dpc = "write" /\ pos = Len(body)) => files[CurName] = Doc(idx)
    /\ \A i \in 1..Len(batch) :
          (outcome[i] = "downloaded" /\ LastWriter(i)) => files[NameOf(i)] = Doc(i)

C7_Witness ==
    /\ dpc = "write"
    /\ retried
    /\ Len(body) = 3
    /\ body[2] = <<>>
    /\ pos = Len(body)
    /\ CurName \in DOMAIN files
    /\ files[CurName] = Doc(idx)

\* C8: two distinct records with the same sanitized file name overwrite one
\* another: when both are downloaded, the one file holds the document of the
\* later one after the batch.
C8_LaterRecordWins ==
    dpc = "done" =>
        \A i, j \in 1..Len(batch) :
            (/\ i < j
             /\ batch[i] # batch[j]
             /\ NameOf(i) = NameOf(j)
             /\ outcome[i] = "downloaded"
             /\ outcome[j] = "downloaded"
             /\ LastWriter(j))
                => files[NameOf(i)] = Doc(j)

C8_Witness ==
    /\ dpc = "done"
    /\ Len(batch) = 2
    /\ batch[1] # batch[2]
    /\ NameOf(1) = NameOf(2)
    /\ outcome = <<"downloaded", "downloaded">>
    /\ files[NameOf(1)] = Doc(2)

\* C10: the folder changes only in a step that has a response with a success
\* status in hand; a record that ends in any other way than downloaded ends
\* before the file is opened, in a step that leaves the folder as it was.
C10_WriteOnlyAfterOk ==
    [][/\ files' # files =>
            (dpc' = "write" /\ status' \in Statuses /\ Ok(status'))
       /\ (idx' # idx /\ outcome'[idx] # "downloaded") =>
            (files' = files /\ dpc # "write")
       /\ (dpc' = "raised" /\ raised' = "RetryError") => files' = files]_vars

C10_Witness ==
    /\ dpc = "done"
    /\ overwrite_existing
    /\ Len(batch) = 2
    /\ NameOf(1) # NameOf(2)
    /\ outcome = <<"no_file", "http_error">>
    /\ NameOf(1) \notin DOMAIN files
    /\ NameOf(2) \in DOMAIN files
    /\ files[NameOf(2)] = OldContent

(***************************************************************************)
(* Claims about the sanitization (under SanitizeSpec).                     *)
(***************************************************************************)
\* C6: sanitizing is idempotent, and its result holds only characters of
\* [0-9a-zA-Z._], no two underscores adjacent.
C6_SanitizeIdempotent ==
    /\ spc \in {"once", "twice"} =>
          /\ \A i \in 1..Len(once) : Allowed(once[i]) \/ once[i] = "_"
          /\ \A i \in 1..(Len(once) - 1) : ~(once[i] = "_" /\ once[i + 1] = "_")
    /\ spc = "twice" => twice = once

C6_Witness ==
    /\ spc = "twice"
    /\ file_name = <<"a", "/", " ">>
    /\ once = <<"a", "_">>
    /\ twice = <<"a", "_">>

====
